---- MODULE Spec2Model ----
(***************************************************************************)
(* A model of the github-action-builder pipeline: entry detection          *)
(* (ConfigServiceLive.detectEntries), project validation                  *)
(* (ValidationServiceLive.validate), the build orchestrator               *)
(* (BuildServiceLive.build) and the Promise facade (GitHubAction).        *)
(*                                                                         *)
(* Optional values (`x?: T`, an unset environment variable) are sets of   *)
(* at most one element: None is `undefined`, Some(v) is the value v.      *)
(***************************************************************************)
EXTENDS Integers, Sequences, FiniteSets, TLC

VARIABLES
    files,       \* the source files that exist (absolute paths)
    manifest,    \* what is stored at <cwd>/action.yml
    env,         \* process.env: the CI and GITHUB_ACTIONS variables
    vcall,       \* arguments and locals of the last ValidationService.validate call
    vout,        \* what that call produced: a ValidationResult or a failure
    dist,        \* the output directory <cwd>/dist
    bpc,         \* where the running BuildService.build call stands
    bcall,       \* its arguments
    entriesResult, \* its entriesResult.entries
    entryResults,\* its entryResults
    trace,       \* what it has done to the bundler and the file system, in order
    bout,        \* what it produced: a BuildResult or a failure
    configFile,  \* the configuration module on disk
    facade,      \* the options a GitHubAction instance was created with
    fconfig,     \* its cached configuration (this.config)
    fpc,         \* where its running operation stands
    lout,        \* what its last configuration load produced
    fout,        \* how the promise of its last operation settled
    loads        \* how often its running (or last) operation ran the loader

worldVars == <<files, manifest, env, configFile>>
validateVars == <<vcall, vout>>
buildVars == <<dist, bpc, bcall, entriesResult, entryResults, trace, bout>>
facadeVars == <<facade, fconfig, fpc, lout, fout, loads>>
vars == <<files, manifest, env, configFile, vcall, vout, dist, bpc, bcall, entriesResult,
          entryResults, trace, bout, facade, fconfig, fpc, lout, fout, loads>>

None == {}
Some(v) == {v}
IsSome(o) == o # {}
Get(o) == CHOOSE v \in o : TRUE
\* JavaScript's `a ?? b`
Coalesce(a, b) == IF IsSome(a) THEN a ELSE b
OptBool == {None, Some(TRUE), Some(FALSE)}

-----------------------------------------------------------------------------
(* Configuration (schemas/config.ts)                                       *)

MainDefault == "src/main.ts"
PreDefault == "src/pre.ts"
PostDefault == "src/post.ts"

\* DEFAULT_ENTRIES of config-live.ts
DEFAULT_ENTRIES == [main |-> MainDefault, pre |-> PreDefault, post |-> PostDefault]

\* The project directory every service is called with (options.cwd)
Cwd == "/project"

\* The absolute paths among the paths a configuration may name
AbsolutePaths == {"/opt/hooks/pre.ts", "/opt/hooks/post.ts"}

\* path.resolve(cwd, p): an absolute p is kept, a relative one is put under cwd
resolve(cwd, p) == IF p \in AbsolutePaths THEN p ELSE cwd \o "/" \o p

\* The conventional source files of a project
SourcePaths == {resolve(Cwd, p) : p \in {MainDefault, PreDefault, PostDefault}}

\* EsTarget
EsTarget == {"es2020", "es2021", "es2022", "es2023", "es2024"}

\* A ConfigInput: every field optional.  A section left out altogether
\* (`config.entries ?? {}`) is a section none of whose fields is set.
\* mistyped names the fields that hold a value of another type than the
\* schema's (a string for a boolean ...); none in a well-typed input.
MkInput(main, pre, post, sourceMap, target, requireActionYml, strict) ==
    [mistyped   |-> {},
     entries    |-> [main |-> main, pre |-> pre, post |-> post],
     build      |-> [minify |-> None, target |-> target, sourceMap |-> sourceMap,
                     externals |-> None, quiet |-> None],
     validation |-> [requireActionYml |-> requireActionYml, maxBundleSize |-> None,
                     strict |-> strict]]

\* The input passes ConfigSchema: every field has its type, and target is
\* an EsTarget
inputValid(input) ==
    /\ input.mistyped = {}
    /\ input.build.target \subseteq EsTarget

\* A BuildOptionsSchema whose minify defaults to false
defineConfig_MinifyOff(input) ==
    IF ~inputValid(input)
    THEN [tag |-> "ParseError"]
    ELSE [tag |-> "Config",
          config |->
            [entries    |-> [main |-> Get(Coalesce(input.entries.main, Some(MainDefault))),
                             pre  |-> input.entries.pre,
                             post |-> input.entries.post],
             build      |-> [minify |-> Get(Coalesce(input.build.minify, Some(FALSE))),
                             target |-> Get(Coalesce(input.build.target, Some("es2022"))),
                             sourceMap |-> Get(Coalesce(input.build.sourceMap, Some(FALSE))),
                             externals |-> Get(Coalesce(input.build.externals, Some(<<>>))),
                             quiet |-> Get(Coalesce(input.build.quiet, Some(FALSE)))],
             validation |-> [requireActionYml |->
                                Get(Coalesce(input.validation.requireActionYml, Some(TRUE))),
                             maxBundleSize |-> input.validation.maxBundleSize,
                             strict |-> input.validation.strict]]]

\* defineConfig(config): Schema.decodeUnknownSync(ConfigSchema) fills in the
\* defaults, and throws a ParseError on a value outside the schema.
defineConfig(input) ==
    IF ~inputValid(input)
    THEN [tag |-> "ParseError"]
    ELSE [tag |-> "Config",
          config |->
            [entries    |-> [main |-> Get(Coalesce(input.entries.main, Some(MainDefault))),
                             pre  |-> input.entries.pre,
                             post |-> input.entries.post],
             build      |-> [minify |-> Get(Coalesce(input.build.minify, Some(TRUE))),
                             target |-> Get(Coalesce(input.build.target, Some("es2022"))),
                             sourceMap |-> Get(Coalesce(input.build.sourceMap, Some(FALSE))),
                             externals |-> Get(Coalesce(input.build.externals, Some(<<>>))),
                             quiet |-> Get(Coalesce(input.build.quiet, Some(FALSE)))],
             validation |-> [requireActionYml |->
                                Get(Coalesce(input.validation.requireActionYml, Some(TRUE))),
                             maxBundleSize |-> input.validation.maxBundleSize,
                             strict |-> input.validation.strict]]]

\* A resolved Config: defineConfig of an input with the given fields.
MkConfig(pre, post, sourceMap, requireActionYml, strict) ==
    defineConfig(MkInput(None, pre, post, Some(sourceMap), None,
                         Some(requireActionYml), strict)).config

-----------------------------------------------------------------------------
(* Entry detection (services/config-live.ts)                               *)

EntryOutput(type) == "dist/" \o type \o ".js"

\* detectOptionalEntry that finds no file
detectOptionalEntry_Never(fs, type, explicitPath) == <<>>

\* detectOptionalEntry that falls back to the conventional path when the
\* explicit one does not exist
detectOptionalEntry_Fallback(fs, type, explicitPath) ==
    LET explicit == resolve(Cwd, Get(Coalesce(explicitPath, Some(DEFAULT_ENTRIES[type]))))
        conventional == resolve(Cwd, DEFAULT_ENTRIES[type])
        absolutePath == IF explicit \in fs THEN explicit ELSE conventional
    IN  IF absolutePath \in fs
        THEN <<[type |-> type, path |-> absolutePath, output |-> EntryOutput(type)]>>
        ELSE <<>>

\* detectOptionalEntry(cwd, type, explicitPath): the entry, or none.
detectOptionalEntry(fs, type, explicitPath) ==
    LET entryPath == Get(Coalesce(explicitPath, Some(DEFAULT_ENTRIES[type])))
        absolutePath == resolve(Cwd, entryPath)
    IN  IF absolutePath \in fs
        THEN <<[type |-> type, path |-> absolutePath, output |-> EntryOutput(type)]>>
        ELSE <<>>

\* detectEntries that treats the main entry like an optional one
detectEntries_MainOptional(fs, entries) ==
    [tag |-> "DetectEntriesResult",
     entries |-> detectOptionalEntry(fs, "main", entries.main)
                 \o detectOptionalEntry(fs, "pre", entries.pre)
                 \o detectOptionalEntry(fs, "post", entries.post)]

\* detectEntries(cwd, entries): MainEntryMissing, or the detected entries
\* in the order main, pre, post.
detectEntries(fs, entries) ==
    LET mainPath == Get(Coalesce(entries.main, Some(DEFAULT_ENTRIES.main)))
        absoluteMainPath == resolve(Cwd, mainPath)
    IN  IF absoluteMainPath \notin fs
        THEN [tag |-> "MainEntryMissing", expectedPath |-> mainPath]
        ELSE [tag |-> "DetectEntriesResult",
              entries |-> <<[type |-> "main", path |-> absoluteMainPath,
                             output |-> EntryOutput("main")]>>
                          \o detectOptionalEntry(fs, "pre", entries.pre)
                          \o detectOptionalEntry(fs, "post", entries.post)]

\* The entriesConfig both orchestrators build from a Config: main always,
\* pre and post only when set (and non-empty).
entriesConfig(config) ==
    [main |-> Some(config.entries.main),
     pre  |-> IF IsSome(config.entries.pre) /\ Get(config.entries.pre) # ""
              THEN config.entries.pre ELSE None,
     post |-> IF IsSome(config.entries.post) /\ Get(config.entries.post) # ""
              THEN config.entries.post ELSE None]

-----------------------------------------------------------------------------
(* Configuration loading (services/config-live.ts)                         *)

\* The one configuration file of the project, action.config.ts.  module is
\* what import(resolve(cwd, configPath)) meets: "missing", "importfails" (the
\* import rejects), "nonobject" (no default export, or not an object),
\* "object" with the exported input, or "instance": the default export is
\* GitHubAction.create(input).  found is existsSync(configPath) for the
\* path as given, which Node resolves against process.cwd().
ConfigPath == "action.config.ts"

MkConfigFile(found, module, input) == [found |-> found, module |-> module, input |-> input]

DefaultInput == MkInput(None, None, None, None, None, None, None)

\* What defineConfig reads of the object GitHubAction.create(options)
\* returns: the constructor keeps options.config, cwd, skipValidation and
\* clean, so the instance has no entries, build or validation property.
create(options) == DefaultInput

\* configModule.default of the imported file
configInput(cf) == IF cf.module = "instance" THEN create(cf.input) ELSE cf.input

\* findConfigFile(cwd): the first candidate that exists in cwd
findConfigFile(cf) == IF cf.module # "missing" THEN Some(ConfigPath) ELSE None

\* ConfigServiceLive.load({cwd, configPath}).  A throw of defineConfig inside
\* Effect.gen is a defect of the effect, not one of its typed failures.
load(cf, configPath) ==
    LET path == Coalesce(configPath, findConfigFile(cf))
        exists == IF IsSome(configPath) THEN cf.found ELSE TRUE
    IN  CASE path = None ->
                [tag |-> "LoadResult", config |-> defineConfig(DefaultInput).config,
                 usingDefaults |-> TRUE]
          [] ~exists -> [tag |-> "ConfigNotFound"]
          [] cf.module \in {"missing", "importfails"} -> [tag |-> "ConfigLoadFailed"]
          [] cf.module = "nonobject" -> [tag |-> "ConfigInvalid"]
          [] defineConfig(configInput(cf)).tag = "ParseError" -> [tag |-> "Defect"]
          [] OTHER -> [tag |-> "LoadResult", config |-> defineConfig(configInput(cf)).config,
                       usingDefaults |-> FALSE]

-----------------------------------------------------------------------------
(* Manifest validation (services/validation-live.ts)                       *)

ManifestPath == "action.yml"

\* The file at <cwd>/action.yml.  kind: "missing", "unreadable" (exists but
\* readFileSync throws), "badyaml" (the YAML parser throws), "nonobject"
\* (parses to null or a scalar: `!parsed || typeof parsed !== "object"`),
\* "sequence" (parses to a YAML sequence, an array: typeof is "object", and
\* none of the manifest's fields is there), "object".
\* For an object: whether `name` is a string, the value of runs.using, which
\* branding keys are present (branding "absent": no branding block), and the
\* declared inputs and outputs in document order, each a name with its
\* description: None (no such field), Some("") or Some of a text.
MkActionYml(kind, nameOk, using, branding, inputs, outputs) ==
    [kind |-> kind, nameOk |-> nameOk, using |-> using, branding |-> branding,
     inputs |-> inputs, outputs |-> outputs]

\* A manifest that declares no inputs and no outputs
MkManifest(kind, nameOk, using, branding) ==
    MkActionYml(kind, nameOk, using, branding, <<>>, <<>>)

NoManifest == MkManifest("missing", TRUE, "node24", "absent")

\* A file whose YAML is a sequence: no name, no runs
SequenceManifest == MkManifest("sequence", FALSE, "absent", "absent")

\* The declarations the schema rejects: ActionInput and ActionOutput require
\* `description: Schema.String`
undescribed(decls, section) ==
    LET bad == SelectSeq(decls, LAMBDA d : d.description = None)
    IN  [i \in 1..Len(bad) |-> section \o "." \o bad[i].name \o ".description"]

\* The places where the parsed tree departs from the ActionYml schema
schemaViolations(m) ==
    (IF m.nameOk THEN <<>> ELSE <<"name">>)
    \o undescribed(m.inputs, "inputs")
    \o undescribed(m.outputs, "outputs")
    \o (IF m.using = "node24" THEN <<>> ELSE <<"runs.using">>)

\* A Runs schema with `using: Schema.String`
schemaValid_AnyUsing(m) ==
    m.nameOk /\ undescribed(m.inputs, "inputs") = <<>>
             /\ undescribed(m.outputs, "outputs") = <<>>

\* Schema.decodeUnknownEither(ActionYml)(parsed) succeeds
schemaValid(m) == schemaViolations(m) = <<>>

\* One {path, message} entry for each violation
formatSchemaErrors_PerViolation(error, filePath) ==
    [i \in 1..Len(error) |-> [path |-> filePath, message |-> <<error[i]>>]]

\* formatSchemaErrors(error, filePath): a single {path, message} entry whose
\* message is the whole formatted ParseError
formatSchemaErrors(error, filePath) == <<[path |-> filePath, message |-> error]>>

makeWarning(code, message, file) == [code |-> code, message |-> message, file |-> file]

\* checkRecommendations that never looks at the declarations
declarationWarnings_None(decls, code, label, filePath) == <<>>

\* The loops of checkRecommendations over Object.entries(inputs) and
\* Object.entries(outputs): a warning for each declaration whose description
\* is falsy (absent or empty)
declarationWarnings(decls, code, label, filePath) ==
    LET bad == SelectSeq(decls, LAMBDA d : d.description \in {None, Some("")})
    IN  [i \in 1..Len(bad) |->
            makeWarning(code, label \o " '" \o bad[i].name \o "' has no description",
                        filePath)]

\* The branding checks of checkRecommendations
brandingWarnings(m, filePath) ==
    IF m.branding = "absent"
    THEN <<makeWarning("ACTION_YML_NO_BRANDING", "No branding configuration found",
                       filePath)>>
    ELSE (IF m.branding \in {"empty", "color"}
          THEN <<makeWarning("ACTION_YML_NO_BRANDING_ICON", "Branding icon not specified",
                             filePath)>>
          ELSE <<>>)
         \o
         (IF m.branding \in {"empty", "icon"}
          THEN <<makeWarning("ACTION_YML_NO_BRANDING_COLOR", "Branding color not specified",
                             filePath)>>
          ELSE <<>>)

\* checkRecommendations with the icon and color checks outside the `else`
checkRecommendations_NoElse(m, filePath) ==
    (IF m.branding = "absent"
     THEN <<makeWarning("ACTION_YML_NO_BRANDING", "No branding configuration found",
                        filePath)>>
     ELSE <<>>)
    \o (IF m.branding \in {"absent", "empty", "color"}
        THEN <<makeWarning("ACTION_YML_NO_BRANDING_ICON", "Branding icon not specified",
                           filePath)>>
        ELSE <<>>)
    \o (IF m.branding \in {"absent", "empty", "icon"}
        THEN <<makeWarning("ACTION_YML_NO_BRANDING_COLOR", "Branding color not specified",
                           filePath)>>
        ELSE <<>>)
    \o declarationWarnings(m.inputs, "ACTION_YML_INPUT_NO_DESCRIPTION", "Input", filePath)
    \o declarationWarnings(m.outputs, "ACTION_YML_OUTPUT_NO_DESCRIPTION", "Output", filePath)

\* checkRecommendations(content, filePath), on the raw parsed tree
checkRecommendations(m, filePath) ==
    brandingWarnings(m, filePath)
    \o declarationWarnings(m.inputs, "ACTION_YML_INPUT_NO_DESCRIPTION", "Input", filePath)
    \o declarationWarnings(m.outputs, "ACTION_YML_OUTPUT_NO_DESCRIPTION", "Output", filePath)

\* readActionYml that takes a missing file for an unreadable one
readActionYml_MissingIsSyntaxError(m, path) ==
    IF m.kind \in {"missing", "unreadable", "badyaml", "nonobject"}
    THEN [tag |-> "ActionYmlSyntaxError", path |-> path]
    ELSE [tag |-> "parsed", parsed |-> m]

\* readActionYml(path): the parsed tree, ActionYmlMissing or ActionYmlSyntaxError
readActionYml(m, path) ==
    CASE m.kind = "missing" -> [tag |-> "ActionYmlMissing"]
      [] m.kind \in {"unreadable", "badyaml", "nonobject"} ->
            [tag |-> "ActionYmlSyntaxError", path |-> path]
      [] OTHER -> [tag |-> "parsed", parsed |-> m]

\* validateSchema(parsed, path): the decoded content, or ActionYmlSchemaError
validateSchema(parsed, path) ==
    IF ~schemaValid(parsed)
    THEN [tag |-> "ActionYmlSchemaError", path |-> path,
          errors |-> formatSchemaErrors(schemaViolations(parsed), path)]
    ELSE [tag |-> "content", content |-> parsed]

\* validateActionYml(path) = readActionYml, validateSchema, checkRecommendations
validateActionYml(m, path) ==
    LET read == readActionYml(m, path)
    IN  IF read.tag # "parsed" THEN read
        ELSE LET decoded == validateSchema(read.parsed, path)
             IN  IF decoded.tag # "content" THEN decoded
                 ELSE [tag |-> "ActionYmlResult", valid |-> TRUE,
                       warnings |-> checkRecommendations(read.parsed, path)]

\* checkEntries whose MainEntryMissing branch is never taken
checkEntries_NoDowngrade(fs, config) == <<>>

\* checkEntries(config, cwd): the error items of entry detection
checkEntries(fs, config) ==
    LET result == detectEntries(fs, entriesConfig(config))
    IN  IF result.tag = "MainEntryMissing"
        THEN <<[code |-> "MAIN_ENTRY_MISSING", file |-> result.expectedPath]>>
        ELSE <<>>

\* checkActionYml without its early return on requireActionYml
checkActionYml_AlwaysChecks(m, config) ==
    LET result == validateActionYml(m, resolve(Cwd, ManifestPath))
    IN  CASE result.tag = "ActionYmlMissing" ->
               [errors |-> <<>>,
                warnings |-> <<[code |-> "ACTION_YML_MISSING",
                                file |-> resolve(Cwd, ManifestPath)]>>]
          [] result.tag = "ActionYmlResult" ->
               [errors |-> <<>>, warnings |-> result.warnings]
          [] OTHER ->
               [errors |-> <<[code |-> "ACTION_YML_ERROR", file |-> result.path]>>,
                warnings |-> <<>>]

\* checkActionYml(config, cwd): the {errors, warnings} of the manifest
checkActionYml(m, config) ==
    IF ~config.validation.requireActionYml
    THEN [errors |-> <<>>, warnings |-> <<>>]
    ELSE LET actionYmlPath == resolve(Cwd, ManifestPath)
             result == validateActionYml(m, actionYmlPath)
         IN  CASE result.tag = "ActionYmlMissing" ->
                    [errors |-> <<>>,
                     warnings |-> <<[code |-> "ACTION_YML_MISSING", file |-> actionYmlPath]>>]
               [] result.tag = "ActionYmlSyntaxError" ->
                    [errors |-> <<[code |-> "ACTION_YML_SYNTAX_ERROR", file |-> result.path]>>,
                     warnings |-> <<>>]
               [] result.tag = "ActionYmlSchemaError" ->
                    [errors |-> [i \in 1..Len(result.errors) |->
                                    [code |-> "ACTION_YML_SCHEMA_ERROR", file |-> result.path]],
                     warnings |-> <<>>]
               [] OTHER -> [errors |-> <<>>, warnings |-> result.warnings]

-----------------------------------------------------------------------------
(* Strict mode (services/validation-live.ts)                               *)

\* An isCI that never detects a CI environment
isCI_Never(e) == FALSE

\* isCI(): CI is "true" or "1", or GITHUB_ACTIONS is "true"
isCI(e) == e.CI = Some("true") \/ e.CI = Some("1") \/ e.GITHUB_ACTIONS = Some("true")

\* resolveStrict(configStrict) = configStrict ?? isCI()
resolveStrict(e, configStrict) == Get(Coalesce(configStrict, Some(isCI(e))))

\* The precedence inverted: config.validation.strict ?? options.strict
strictArgument_ConfigFirst(config, options) ==
    Coalesce(config.validation.strict, options.strict)

\* The argument validate passes: options.strict ?? config.validation.strict
strictArgument(config, options) == Coalesce(options.strict, config.validation.strict)

\* `||` in place of the first `&&`
verdict_Or(strict, errors, warnings) ==
    Len(errors) = 0 \/ (~strict \/ Len(warnings) = 0)

\* "Determine validity": the `valid` of validate
verdict(strict, errors, warnings) ==
    Len(errors) = 0 /\ (~strict \/ Len(warnings) = 0)

\* The condition without `errors.length === 0`
strictFailure_AnyErrors(strict, errors, warnings) ==
    strict /\ Len(warnings) > 0

\* "In strict mode with warnings, fail": the condition under which validate
\* fails with ValidationFailed
strictFailure(strict, errors, warnings) ==
    strict /\ Len(warnings) > 0 /\ Len(errors) = 0

\* ValidationServiceLive.validate(config, options): its locals (strict,
\* errors, warnings) and its outcome, a ValidationResult or ValidationFailed.
validate(fs, m, e, config, options) ==
    LET strict   == resolveStrict(e, strictArgument(config, options))
        entryErrors == checkEntries(fs, config)
        actionYmlResult == checkActionYml(m, config)
        errors   == entryErrors \o actionYmlResult.errors
        warnings == actionYmlResult.warnings
        valid    == verdict(strict, errors, warnings)
    IN  [strict |-> strict, errors |-> errors, warnings |-> warnings,
         outcome |->
            IF strictFailure(strict, errors, warnings)
            THEN [tag |-> "ValidationFailed", errorCount |-> 0,
                  warningCount |-> Len(warnings)]
            ELSE [tag |-> "ValidationResult", valid |-> valid,
                  errors |-> errors, warnings |-> warnings]]

-----------------------------------------------------------------------------
(* The output directory                                                    *)

\* <cwd>/dist: whether the directory exists, and its files (name -> content)
NoDist == [exists |-> FALSE, files |-> <<>>]

\* mkdirSync(dir, recursive) and writeFileSync(path, content)
written(d, path, content) ==
    [exists |-> TRUE,
     files |-> [p \in DOMAIN d.files \cup {path} |->
                    IF p = path THEN content ELSE d.files[p]]]

-----------------------------------------------------------------------------
(* The validation service called on a project                              *)

NoCall == [op |-> "none"]
NoOutcome == [tag |-> "none"]

EnvValues == {None, Some("true"), Some("1"), Some("false")}
Envs == [CI : EnvValues, GITHUB_ACTIONS : {None, Some("true"), Some("false")}]

ValidateManifests ==
    {NoManifest,
     MkManifest("unreadable", TRUE, "node24", "absent"),
     MkManifest("badyaml", TRUE, "node24", "absent"),
     MkManifest("nonobject", TRUE, "node24", "absent"),
     SequenceManifest}
    \cup {MkManifest("object", n, u, b) :
            n \in BOOLEAN, u \in {"node24", "node20"}, b \in {"absent", "empty", "full"}}

ValidateConfigs ==
    {MkConfig(None, None, FALSE, r, s) : r \in BOOLEAN, s \in OptBool}

ValidateOptions == [strict : OptBool]

\* No configuration file at either place
NoConfigFile == MkConfigFile(FALSE, "missing", DefaultInput)

\* A GitHubAction created with no options, and not used
FacadeIdle ==
    /\ facade = [configSource |-> None, skipValidation |-> FALSE, clean |-> TRUE]
    /\ fconfig = None
    /\ fpc = "idle"
    /\ lout = NoOutcome
    /\ fout = NoOutcome
    /\ loads = 0

\* No build is running and none has run.
BuildIdle ==
    /\ bpc = "idle"
    /\ bcall = NoCall
    /\ entriesResult = <<>>
    /\ entryResults = <<>>
    /\ trace = <<>>
    /\ bout = NoOutcome

InitValidate ==
    /\ files \in SUBSET {resolve(Cwd, MainDefault), resolve(Cwd, PreDefault)}
    /\ manifest \in ValidateManifests
    /\ env \in Envs
    /\ configFile = NoConfigFile
    /\ vcall = NoCall
    /\ vout = NoOutcome
    /\ dist = NoDist
    /\ BuildIdle
    /\ FacadeIdle

\* A caller runs validationService.validate(config, options).
Validate(config, options) ==
    /\ vcall = NoCall
    /\ LET run == validate(files, manifest, env, config, options)
       IN  /\ vcall' = [op |-> "validate", config |-> config, options |-> options,
                        strict |-> run.strict, errors |-> run.errors,
                        warnings |-> run.warnings]
           /\ vout' = run.outcome
    /\ UNCHANGED <<worldVars, buildVars, facadeVars>>

NextValidate ==
    \E config \in ValidateConfigs, options \in ValidateOptions :
        Validate(config, options)

SpecValidate == InitValidate /\ [][NextValidate]_vars

-----------------------------------------------------------------------------
(* The validation service called on manifests with inputs and outputs      *)

\* Most inputs, and most outputs, a manifest declares
MaxDecls == 2

DeclNames == <<"token", "ref", "path", "mode">>

\* A declaration's description: no such field, an empty one, a text
Descriptions == {None, Some(""), Some("text")}

\* The `inputs` (or `outputs`) blocks of at most MaxDecls declarations
Declarations ==
    UNION {{[i \in 1..k |-> [name |-> DeclNames[i], description |-> f[i]]] :
                f \in [1..k -> Descriptions]} : k \in 0..MaxDecls}

DeclaringManifests ==
    {MkActionYml("object", n, u, b, ins, outs) :
        n \in BOOLEAN, u \in {"node24", "node20"},
        b \in {"absent", "empty", "icon", "color", "full"},
        ins \in Declarations, outs \in Declarations}

ManifestConfigs == {MkConfig(None, None, FALSE, r, None) : r \in BOOLEAN}

InitManifest ==
    /\ files \in SUBSET {resolve(Cwd, MainDefault)}
    /\ manifest \in DeclaringManifests
    /\ env \in [CI : {None, Some("true")}, GITHUB_ACTIONS : {None}]
    /\ configFile = NoConfigFile
    /\ vcall = NoCall
    /\ vout = NoOutcome
    /\ dist = NoDist
    /\ BuildIdle
    /\ FacadeIdle

NextManifest ==
    \E config \in ManifestConfigs : Validate(config, [strict |-> None])

SpecManifest == InitManifest /\ [][NextManifest]_vars

-----------------------------------------------------------------------------
(* The build orchestrator (services/build-live.ts)                         *)

\* Most assets (split chunks ...) the bundler emits beside one entry's code
MaxAssets == 1

AssetNames == <<"chunk1.js", "chunk2.js", "chunk3.js">>

MarkerPath == "dist/package.json"
MarkerContent == "{ \"type\": \"module\" }"

\* What ncc resolves to for an entry: its code, whether a source map came
\* with it, and the names of the assets it emitted.
NccResults ==
    [code : {"code"}, map : BOOLEAN,
     assets : {SubSeq(AssetNames, 1, k) : k \in 0..MaxAssets}]

\* A build that never cleans
shouldClean_Never(options) == FALSE

\* options.clean ?? true
shouldClean(options) == Get(Coalesce(options.clean, Some(TRUE)))

\* The writeFile calls of bundleEntry after the bundler succeeded, in order:
\* the main bundle, the source map (only if enabled and produced), the assets
\* resolved against the directory of the output path.
entryWrites(entry, config, ncc) ==
    <<[path |-> entry.output, content |-> ncc.code \o ":" \o entry.type]>>
    \o (IF config.build.sourceMap /\ ncc.map
        THEN <<[path |-> entry.output \o ".map", content |-> "map:" \o entry.type]>>
        ELSE <<>>)
    \o [i \in 1..Len(ncc.assets) |->
            [path |-> "dist/" \o ncc.assets[i], content |-> "asset:" \o entry.type]]

RECURSIVE writeAll(_, _)
\* The output directory after the given writeFile calls all succeeded
writeAll(d, writes) ==
    IF writes = <<>> THEN d
    ELSE writeAll(written(d, Head(writes).path, Head(writes).content), Tail(writes))

event(ev, arg, ok) == [ev |-> ev, arg |-> arg, ok |-> ok]

\* The trace of writeFile calls of which the last one failed iff failed
writeEvents(writes, failed) ==
    [i \in 1..Len(writes) |->
        event("write", writes[i].path, ~(failed /\ i = Len(writes)))]

\* A failed bundleEntry recorded as a success
failedResult_Success(cause) == [success |-> TRUE, stats |-> None, error |-> Some(cause)]

\* The entryResults item of a bundleEntry that failed (BundleFailed or WriteError)
failedResult(cause) == [success |-> FALSE, stats |-> None, error |-> Some(cause)]

\* getBundleSize(code) = Buffer.byteLength(code, "utf8").  The code values of
\* the model stand for bundles: "large" for one of six megabytes, any other
\* for one of four kilobytes.
getBundleSize(code) == IF code = "large" THEN 6 * 1024 * 1024 ELSE 4 * 1024

\* The BundleResult bundleEntry returns (without its duration)
bundleResult(entry, ncc) ==
    [success |-> TRUE,
     stats |-> Some([entry |-> entry.type, size |-> getBundleSize(ncc.code),
                     outputPath |-> entry.output]),
     error |-> None]

\* `some` in place of `every`
buildSuccess_Some(results) == \E i \in DOMAIN results : results[i].success

\* entryResults.every((r) => r.success)
buildSuccess(results) == \A i \in DOMAIN results : results[i].success

\* The BuildResult build returns
buildResult(results) ==
    LET success == buildSuccess(results)
    IN  [tag |-> "BuildResult", success |-> success, entries |-> results,
         error |-> IF ~success THEN Some("One or more entries failed to build")
                   ELSE None]

\* The loop without Effect.either: the first failed entry ends it
loopDone_StopOnFailure(results, ents) ==
    \/ Len(results) = Len(ents)
    \/ \E i \in DOMAIN results : ~results[i].success

\* `for (const entry of entriesResult.entries)`: the loop has ended.  Every
\* bundleEntry runs under Effect.either, so only the end of the list ends it.
loopDone(results, ents) == Len(results) = Len(ents)

\* The marker file written only after a build without failed entries
markerWrites_OnSuccess(results) ==
    IF \A i \in DOMAIN results : results[i].success
    THEN <<[path |-> MarkerPath, content |-> MarkerContent]>> ELSE <<>>

\* The writeFile calls that follow the loop: the marker file, unconditionally
markerWrites(results) == <<[path |-> MarkerPath, content |-> MarkerContent]>>

\* build(config, options) is called: it detects the entries, and fails with
\* MainEntryMissing when detection does.
BuildStart(config, options) ==
    /\ bpc = "idle"
    /\ bcall' = [op |-> "build", config |-> config, options |-> options,
                 dist0 |-> dist]
    /\ LET result == detectEntries(files, entriesConfig(config))
       IN  IF result.tag = "MainEntryMissing"
           THEN /\ bpc' = "done"
                /\ bout' = [tag |-> "MainEntryMissing",
                            expectedPath |-> result.expectedPath]
                /\ UNCHANGED entriesResult
           ELSE /\ bpc' = IF shouldClean(options) THEN "clean" ELSE "entries"
                /\ entriesResult' = result.entries
                /\ UNCHANGED bout
    /\ trace' = <<event("detect", "", TRUE)>>
    /\ UNCHANGED <<worldVars, dist, entryResults>>

\* A caller runs buildService.build(config, options).
Build(config, options) ==
    /\ fpc = "idle"
    /\ BuildStart(config, options)
    /\ UNCHANGED <<validateVars, facadeVars>>

\* cleanDirectory(<cwd>/dist): removes the directory if it exists; a removal
\* that throws fails the build with CleanError.
BuildClean ==
    /\ bpc = "clean"
    /\ \E throws \in BOOLEAN :
        /\ throws => dist.exists
        /\ trace' = Append(trace, event("clean", "dist", ~throws))
        /\ IF throws
           THEN /\ bpc' = "done"
                /\ bout' = [tag |-> "CleanError", directory |-> "dist"]
                /\ UNCHANGED dist
           ELSE /\ bpc' = "entries"
                /\ dist' = NoDist
                /\ UNCHANGED bout
    /\ UNCHANGED <<worldVars, validateVars, facadeVars, bcall, entriesResult, entryResults>>

\* One turn of the loop over entriesResult.entries: bundleEntry under
\* Effect.either.  The bundler rejects (BundleFailed), or resolves and the
\* writes follow, of which any one may fail (WriteError) and end the entry.
\* A failed write leaves the directory as the writes before it left it.
\* results: what the bundler may resolve to.
BuildEntryOf(results) ==
    /\ bpc = "entries"
    /\ ~loopDone(entryResults, entriesResult)
    /\ LET entry == entriesResult[Len(entryResults) + 1]
           bundled == event("bundle", entry.type, TRUE)
       IN  \/ /\ entryResults' = Append(entryResults, failedResult("ncc: " \o entry.type))
              /\ trace' = Append(trace, event("bundle", entry.type, FALSE))
              /\ UNCHANGED dist
           \/ \E ncc \in results :
                LET writes == entryWrites(entry, bcall.config, ncc)
                IN  \/ /\ dist' = writeAll(dist, writes)
                       /\ trace' = Append(trace, bundled) \o writeEvents(writes, FALSE)
                       /\ entryResults' = Append(entryResults, bundleResult(entry, ncc))
                    \/ \E n \in 1..Len(writes) :
                       /\ dist' = writeAll(dist, SubSeq(writes, 1, n - 1))
                       /\ trace' = Append(trace, bundled)
                                     \o writeEvents(SubSeq(writes, 1, n), TRUE)
                       /\ entryResults' =
                            Append(entryResults, failedResult("write: " \o writes[n].path))
    /\ UNCHANGED <<worldVars, validateVars, facadeVars, bpc, bcall, entriesResult, bout>>

\* One turn of the loop, on a project whose bundles come with at most
\* MaxAssets split chunks
BuildEntry == BuildEntryOf(NccResults)

\* After the loop: the marker file dist/package.json is written, then the
\* BuildResult is put together.  The marker's writeFile is not under
\* Effect.either: its WriteError is the failure of build.
BuildMarker ==
    /\ bpc = "entries"
    /\ loopDone(entryResults, entriesResult)
    /\ LET writes == markerWrites(entryResults)
       IN  \/ /\ dist' = writeAll(dist, writes)
              /\ trace' = trace \o writeEvents(writes, FALSE)
              /\ bout' = buildResult(entryResults)
           \/ \E n \in 1..Len(writes) :
              /\ dist' = writeAll(dist, SubSeq(writes, 1, n - 1))
              /\ trace' = trace \o writeEvents(SubSeq(writes, 1, n), TRUE)
              /\ bout' = [tag |-> "WriteError", path |-> writes[n].path]
    /\ bpc' = "done"
    /\ UNCHANGED <<worldVars, validateVars, facadeVars, bcall, entriesResult, entryResults>>

\* An output directory left by an earlier build of another project state
StaleDist == written(written(NoDist, "dist/main.js", "stale"), "dist/old.js", "stale")

BuildConfigs ==
    {MkConfig(None, None, sm, TRUE, None) : sm \in BOOLEAN}

BuildOptions == [clean : OptBool]

InitBuild ==
    /\ files \in SUBSET SourcePaths
    /\ manifest = NoManifest
    /\ env = [CI |-> None, GITHUB_ACTIONS |-> None]
    /\ configFile = NoConfigFile
    /\ vcall = NoCall
    /\ vout = NoOutcome
    /\ dist \in {NoDist, StaleDist}
    /\ BuildIdle
    /\ FacadeIdle

NextBuild ==
    \/ \E config \in BuildConfigs, options \in BuildOptions : Build(config, options)
    \/ BuildClean
    \/ BuildEntry
    \/ BuildMarker

SpecBuild == InitBuild /\ [][NextBuild]_vars

-----------------------------------------------------------------------------
(* The facade (github-action.ts): GitHubAction                             *)

\* The program loadConfig runs when nothing is cached: by the kind of
\* this.configSource, configService.load or defineConfig.
loadProgram(f, cf) ==
    IF f.configSource = None THEN load(cf, None)
    ELSE IF Get(f.configSource).kind = "path" THEN load(cf, Some(ConfigPath))
    ELSE LET r == defineConfig(Get(f.configSource).input)
         IN  IF r.tag = "ParseError" THEN [tag |-> "Defect"]
             ELSE [tag |-> "LoadResult", config |-> r.config, usingDefaults |-> FALSE]

\* loadConfig without `if (this.config) return this.config`
loadConfig_NoCache(f, cached, cf) == loadProgram(f, cf)

\* GitHubAction.loadConfig(): the cached configuration, or the program's
\* outcome; runPromise rejects on every failure and defect.
loadConfig(f, cached, cf) ==
    IF IsSome(cached)
    THEN [tag |-> "LoadResult", config |-> Get(cached), usingDefaults |-> FALSE]
    ELSE loadProgram(f, cf)

\* this.config after loadConfig
cacheAfter(cached, loaded) ==
    IF loaded.tag = "LoadResult" THEN Some(loaded.config) ELSE cached

\* How often one loadConfig() runs its program: not at all when this.config
\* is set
loaderRuns(cached) == IF IsSome(cached) THEN 0 ELSE 1

\* build() going on to the build service whatever the validation result
validationBlocks_Never(validationResult) == FALSE

\* `if (!validationResult.valid)` of build(): the build service is not invoked
validationBlocks(validationResult) == ~validationResult.valid

fulfilled(op, value) == [op |-> op, settled |-> "fulfilled", value |-> value]
rejected(op, error) == [op |-> op, settled |-> "rejected", error |-> error]

\* The GitHubActionBuildResult envelopes of build()
envelope(success, build, validation, error) ==
    [success |-> success, build |-> build, validation |-> validation, error |-> error]

\* A caller awaits action.loadConfig().
FacadeLoadConfig ==
    /\ fpc = "idle" /\ bpc = "idle"
    /\ LET loaded == loadConfig(facade, fconfig, configFile)
       IN  /\ lout' = loaded
           /\ fconfig' = cacheAfter(fconfig, loaded)
           /\ fout' = IF loaded.tag = "LoadResult"
                      THEN fulfilled("loadConfig", loaded.config)
                      ELSE rejected("loadConfig", loaded.tag)
    /\ loads' = loaderRuns(fconfig)
    /\ fpc' = "done"
    /\ UNCHANGED <<worldVars, validateVars, buildVars, facade>>

\* The validationService.validate(config, {cwd, ...options}) of the facade
FacadeRunsValidate(config, options) ==
    LET run == validate(files, manifest, env, config, options)
    IN  /\ vcall' = [op |-> "validate", config |-> config, options |-> options,
                     strict |-> run.strict, errors |-> run.errors,
                     warnings |-> run.warnings]
        /\ vout' = run.outcome

\* A caller awaits action.validate(options).
FacadeValidate(options) ==
    /\ fpc = "idle" /\ bpc = "idle"
    /\ LET loaded == loadConfig(facade, fconfig, configFile)
       IN  /\ lout' = loaded
           /\ fconfig' = cacheAfter(fconfig, loaded)
           /\ IF loaded.tag # "LoadResult"
              THEN /\ fout' = rejected("validate", loaded.tag)
                   /\ UNCHANGED validateVars
              ELSE /\ FacadeRunsValidate(loaded.config, options)
                   /\ fout' = IF vout'.tag = "ValidationResult"
                              THEN fulfilled("validate", vout')
                              ELSE rejected("validate", vout'.tag)
    /\ loads' = loaderRuns(fconfig)
    /\ fpc' = "done"
    /\ UNCHANGED <<worldVars, buildVars, facade>>

\* A caller awaits action.build(): the configuration is loaded, the project
\* validated unless skipValidation (by this.validate(), which calls
\* loadConfig() again), and the build service invoked; whatever is thrown
\* before that is caught and returned as a failed envelope.
FacadeBuild ==
    /\ fpc = "idle" /\ bpc = "idle"
    /\ LET loaded == loadConfig(facade, fconfig, configFile)
           again == loadConfig(facade, cacheAfter(fconfig, loaded), configFile)
       IN  /\ lout' = loaded
           /\ fconfig' = cacheAfter(fconfig, loaded)
           /\ IF loaded.tag # "LoadResult"
              THEN /\ fout' = fulfilled("build", envelope(FALSE, None, None, Some(loaded.tag)))
                   /\ loads' = loaderRuns(fconfig)
                   /\ fpc' = "done"
                   /\ UNCHANGED <<validateVars, buildVars>>
              ELSE IF facade.skipValidation
              THEN /\ BuildStart(loaded.config, [clean |-> Some(facade.clean)])
                   /\ loads' = loaderRuns(fconfig)
                   /\ fpc' = "building"
                   /\ UNCHANGED <<validateVars, fout>>
              ELSE /\ FacadeRunsValidate(again.config, [strict |-> None])
                   /\ loads' = loaderRuns(fconfig) + loaderRuns(cacheAfter(fconfig, loaded))
                   /\ IF vout'.tag # "ValidationResult"
                      THEN /\ fout' = fulfilled("build",
                                        envelope(FALSE, None, None, Some(vout'.tag)))
                           /\ fpc' = "done"
                           /\ UNCHANGED buildVars
                      ELSE IF validationBlocks(vout')
                      THEN /\ fout' = fulfilled("build",
                                        envelope(FALSE, None, Some(vout'),
                                                 Some("Validation failed")))
                           /\ fpc' = "done"
                           /\ UNCHANGED buildVars
                      ELSE /\ BuildStart(loaded.config, [clean |-> Some(facade.clean)])
                           /\ fpc' = "building"
                           /\ UNCHANGED fout
    /\ UNCHANGED <<files, manifest, env, configFile, facade>>

\* The validation result build() holds when the build service returns
heldValidation(f, v) == IF f.skipValidation THEN None ELSE Some(v)

\* build() without its try/catch: a failure of the build service rejects
FacadeBuildReturn_NoCatch ==
    /\ fpc = "building" /\ bpc = "done"
    /\ fout' = IF bout.tag # "BuildResult"
               THEN rejected("build", bout.tag)
               ELSE fulfilled("build",
                        envelope(bout.success, Some(bout), heldValidation(facade, vout),
                                 bout.error))
    /\ fpc' = "done"
    /\ UNCHANGED <<worldVars, validateVars, buildVars, facade, fconfig, lout, loads>>

\* The build service has returned or failed: build() returns its envelope.
FacadeBuildReturn ==
    /\ fpc = "building" /\ bpc = "done"
    /\ fout' = fulfilled("build",
                IF bout.tag # "BuildResult"
                THEN envelope(FALSE, None, None, Some(bout.tag))
                ELSE IF ~bout.success
                THEN envelope(FALSE, Some(bout), heldValidation(facade, vout),
                              Some(Get(Coalesce(bout.error, Some("Build failed")))))
                ELSE envelope(TRUE, Some(bout), heldValidation(facade, vout), None))
    /\ fpc' = "done"
    /\ UNCHANGED <<worldVars, validateVars, buildVars, facade, fconfig, lout, loads>>

FacadeManifests ==
    {NoManifest,
     MkManifest("object", TRUE, "node24", "full"),
     MkManifest("object", TRUE, "node20", "full")}

FacadeEnvs == [CI : {None, Some("true")}, GITHUB_ACTIONS : {None}]

InvalidInput == MkInput(None, None, None, None, Some("es5"), None, None)

FacadeInputs ==
    {DefaultInput,
     MkInput(None, None, None, Some(TRUE), None, Some(FALSE), Some(TRUE)),
     InvalidInput}

ConfigFiles ==
    {NoConfigFile, MkConfigFile(FALSE, "object", DefaultInput)}
    \cup {MkConfigFile(TRUE, m, DefaultInput) : m \in {"importfails", "nonobject", "object"}}
    \cup {MkConfigFile(TRUE, "object", InvalidInput)}

ConfigSources ==
    {None, Some([kind |-> "path", input |-> DefaultInput])}
    \cup {Some([kind |-> "object", input |-> i]) : i \in FacadeInputs}

InitFacade ==
    /\ files \in SUBSET {resolve(Cwd, MainDefault), resolve(Cwd, PreDefault)}
    /\ manifest \in FacadeManifests
    /\ env \in FacadeEnvs
    /\ configFile \in ConfigFiles
    /\ vcall = NoCall
    /\ vout = NoOutcome
    /\ dist = NoDist
    /\ BuildIdle
    /\ facade \in [configSource : ConfigSources, skipValidation : BOOLEAN,
                   clean : BOOLEAN]
    /\ fconfig = None
    /\ fpc = "idle"
    /\ lout = NoOutcome
    /\ fout = NoOutcome
    /\ loads = 0

NextFacade ==
    \/ FacadeLoadConfig
    \/ \E options \in ValidateOptions : FacadeValidate(options)
    \/ FacadeBuild
    \/ BuildClean
    \/ BuildEntry
    \/ BuildMarker
    \/ FacadeBuildReturn

SpecFacade == InitFacade /\ [][NextFacade]_vars

-----------------------------------------------------------------------------
(* Entry detection on projects that configure their pre and post entries   *)

\* The files a project or its configuration may name beside the
\* conventional ones
ExplicitPaths == {"src/setup.ts", "src/cleanup.ts", "/opt/hooks/pre.ts"}

DetectConfigs ==
    {MkConfig(pre, post, FALSE, FALSE, None) :
        pre \in {None, Some("src/setup.ts"), Some("/opt/hooks/pre.ts")},
        post \in {None, Some("src/cleanup.ts")}}

InitDetect ==
    /\ files \in SUBSET (SourcePaths \cup {resolve(Cwd, p) : p \in ExplicitPaths})
    /\ manifest = NoManifest
    /\ env = [CI |-> None, GITHUB_ACTIONS |-> None]
    /\ configFile = NoConfigFile
    /\ vcall = NoCall
    /\ vout = NoOutcome
    /\ dist = NoDist
    /\ BuildIdle
    /\ FacadeIdle

NextDetect ==
    \/ \E config \in DetectConfigs : Build(config, [clean |-> Some(FALSE)])
    \/ \E config \in DetectConfigs : Validate(config, [strict |-> None])

SpecDetect == InitDetect /\ [][NextDetect]_vars

-----------------------------------------------------------------------------
(* One GitHubAction used for several operations while the configuration    *)
(* file changes on disk                                                    *)

MapsInput == MkInput(None, None, None, Some(TRUE), None, None, None)

MemoConfigFiles ==
    {NoConfigFile,
     MkConfigFile(TRUE, "importfails", DefaultInput),
     MkConfigFile(TRUE, "object", DefaultInput),
     MkConfigFile(TRUE, "object", MapsInput)}

\* The caller has its result and goes on to its next call on the instance.
FacadeNextCall ==
    /\ fpc = "done"
    /\ fpc' = "idle"
    /\ bpc' = "idle"
    /\ bcall' = NoCall
    /\ entriesResult' = <<>>
    /\ entryResults' = <<>>
    /\ trace' = <<>>
    /\ bout' = NoOutcome
    /\ vcall' = NoCall
    /\ vout' = NoOutcome
    /\ fout' = NoOutcome
    /\ UNCHANGED <<worldVars, dist, facade, fconfig, lout, loads>>

\* Between two calls the configuration file is edited, removed or created.
ConfigFileChanges ==
    /\ fpc = "idle"
    /\ configFile' \in MemoConfigFiles \ {configFile}
    /\ UNCHANGED <<files, manifest, env, validateVars, buildVars, facadeVars>>

InitMemo ==
    /\ files = {resolve(Cwd, MainDefault)}
    /\ manifest = MkManifest("object", TRUE, "node24", "full")
    /\ env = [CI |-> None, GITHUB_ACTIONS |-> None]
    /\ configFile \in MemoConfigFiles
    /\ vcall = NoCall
    /\ vout = NoOutcome
    /\ dist = NoDist
    /\ BuildIdle
    /\ facade \in [configSource : {None, Some([kind |-> "path", input |-> DefaultInput])},
                   skipValidation : BOOLEAN, clean : {TRUE}]
    /\ fconfig = None
    /\ fpc = "idle"
    /\ lout = NoOutcome
    /\ fout = NoOutcome
    /\ loads = 0

NextMemo ==
    \/ FacadeLoadConfig
    \/ FacadeValidate([strict |-> None])
    \/ FacadeBuild
    \/ BuildClean
    \/ BuildEntry
    \/ BuildMarker
    \/ FacadeBuildReturn
    \/ FacadeNextCall
    \/ ConfigFileChanges

SpecMemo == InitMemo /\ [][NextMemo]_vars

-----------------------------------------------------------------------------
(* A GitHubAction created with a configuration object, whose loadConfig    *)
(* resolves it                                                             *)

ResolveInputs ==
    [mistyped   : {{}},
     entries    : [main : {None, Some("src/index.ts")},
                   pre  : {None, Some("src/setup.ts")},
                   post : {None}],
     build      : [minify : OptBool, target : {None, Some("es2020")},
                   sourceMap : OptBool,
                   externals : {None, Some(<<>>), Some(<<"@actions/core">>)},
                   quiet : {None, Some(TRUE)}],
     validation : [requireActionYml : OptBool, maxBundleSize : {None, Some("5mb")},
                   strict : OptBool]]

InitResolve ==
    /\ files = {resolve(Cwd, MainDefault)}
    /\ manifest = NoManifest
    /\ env = [CI |-> None, GITHUB_ACTIONS |-> None]
    /\ configFile = NoConfigFile
    /\ vcall = NoCall
    /\ vout = NoOutcome
    /\ dist = NoDist
    /\ BuildIdle
    /\ facade \in [configSource : {Some([kind |-> "object", input |-> i]) :
                                        i \in ResolveInputs},
                   skipValidation : {FALSE}, clean : {TRUE}]
    /\ fconfig = None
    /\ fpc = "idle"
    /\ lout = NoOutcome
    /\ fout = NoOutcome
    /\ loads = 0

NextResolve == FacadeLoadConfig

SpecResolve == InitResolve /\ [][NextResolve]_vars

-----------------------------------------------------------------------------
(* ConfigService.load on the configuration files a project may have        *)

WrongTypeInput == [DefaultInput EXCEPT !.mistyped = {"build.minify"}]

CustomInput ==
    [MkInput(Some("src/index.ts"), None, Some("src/cleanup.ts"), Some(TRUE), None,
             Some(FALSE), None) EXCEPT !.build.minify = Some(FALSE)]

LoadInputs == {DefaultInput, MapsInput, CustomInput, InvalidInput, WrongTypeInput}

LoadConfigFiles ==
    {MkConfigFile(found, module, input) :
        found \in BOOLEAN,
        module \in {"missing", "importfails", "nonobject", "object", "instance"},
        input \in LoadInputs}

InitLoad ==
    /\ files = {resolve(Cwd, MainDefault)}
    /\ manifest = NoManifest
    /\ env = [CI |-> None, GITHUB_ACTIONS |-> None]
    /\ configFile \in LoadConfigFiles
    /\ vcall = NoCall
    /\ vout = NoOutcome
    /\ dist = NoDist
    /\ BuildIdle
    /\ facade \in [configSource : {None, Some([kind |-> "path", input |-> DefaultInput])},
                   skipValidation : {FALSE}, clean : {TRUE}]
    /\ fconfig = None
    /\ fpc = "idle"
    /\ lout = NoOutcome
    /\ fout = NoOutcome
    /\ loads = 0

NextLoad == FacadeLoadConfig

SpecLoad == InitLoad /\ [][NextLoad]_vars

-----------------------------------------------------------------------------
(* The facade's build() on projects that limit the size of their bundles   *)

\* A configuration that sets validation.maxBundleSize
LimitedInput == [DefaultInput EXCEPT !.validation.maxBundleSize = Some("5mb")]

\* The bundler resolving to code within or beyond the limit
SizedNccResults == [code : {"code", "large"}, map : {FALSE}, assets : {<<>>}]

\* One turn of the loop, on a project whose bundle may be large
BuildEntrySized == BuildEntryOf(SizedNccResults)

InitSize ==
    /\ files \in SUBSET SourcePaths
    /\ manifest = MkManifest("object", TRUE, "node24", "full")
    /\ env = [CI |-> None, GITHUB_ACTIONS |-> None]
    /\ configFile = NoConfigFile
    /\ vcall = NoCall
    /\ vout = NoOutcome
    /\ dist = NoDist
    /\ BuildIdle
    /\ facade \in [configSource : {Some([kind |-> "object", input |-> i]) :
                                        i \in {DefaultInput, LimitedInput}},
                   skipValidation : BOOLEAN, clean : BOOLEAN]
    /\ fconfig = None
    /\ fpc = "idle"
    /\ lout = NoOutcome
    /\ fout = NoOutcome
    /\ loads = 0

NextSize ==
    \/ FacadeBuild
    \/ BuildClean
    \/ BuildEntrySized
    \/ BuildMarker
    \/ FacadeBuildReturn

SpecSize == InitSize /\ [][NextSize]_vars

-----------------------------------------------------------------------------
(* The build orchestrator on projects whose bundles come with an asset     *)
(* named like an entry's output                                            *)

\* Assets a bundle may emit: a file the entry's code loads at run time is
\* emitted under its own name
ClashingNccResults ==
    [code : {"code"}, map : {FALSE}, assets : {<<>>, <<"main.js">>, <<"post.js">>}]

\* One turn of the loop, on such a project
BuildEntryClashing == BuildEntryOf(ClashingNccResults)

InitAssets ==
    /\ files \in SUBSET SourcePaths
    /\ manifest = NoManifest
    /\ env = [CI |-> None, GITHUB_ACTIONS |-> None]
    /\ configFile = NoConfigFile
    /\ vcall = NoCall
    /\ vout = NoOutcome
    /\ dist = NoDist
    /\ BuildIdle
    /\ FacadeIdle

NextAssets ==
    \/ \E config \in BuildConfigs, options \in BuildOptions : Build(config, options)
    \/ BuildClean
    \/ BuildEntryClashing
    \/ BuildMarker

SpecAssets == InitAssets /\ [][NextAssets]_vars

-----------------------------------------------------------------------------
(* Properties of ValidationService.validate, under SpecValidate             *)

Validated == vcall.op = "validate"

\* C1: when strict mode resolves to true, errors are empty and there is at
\* least one warning, validate fails with ValidationFailed{errorCount: 0,
\* warningCount: number of warnings}; whenever errors is non-empty or strict
\* resolves to false, validate returns a ValidationResult.
C1_StrictWarningsFail ==
    Validated =>
        /\ (vcall.strict /\ vcall.errors = <<>> /\ vcall.warnings # <<>>)
             => vout = [tag |-> "ValidationFailed", errorCount |-> 0,
                        warningCount |-> Len(vcall.warnings)]
        /\ (vcall.errors # <<>> \/ ~vcall.strict)
             => /\ vout.tag = "ValidationResult"
                /\ vout.errors = vcall.errors
                /\ vout.warnings = vcall.warnings

\* validate has failed on warnings alone, in strict mode
C1_Witness ==
    /\ Validated
    /\ vcall.strict /\ vcall.errors = <<>> /\ Len(vcall.warnings) = 2
    /\ vout.tag = "ValidationFailed"

\* The first defined value of options.strict, config.validation.strict and
\* the CI indicators
FirstDefinedStrict(config, options, e) ==
    IF options.strict # None THEN options.strict = Some(TRUE)
    ELSE IF config.validation.strict # None THEN config.validation.strict = Some(TRUE)
    ELSE e.CI \in {Some("true"), Some("1")} \/ e.GITHUB_ACTIONS = Some("true")

\* C2: the strict mode validate works with is the first defined value of
\* options.strict, config.validation.strict, and the CI auto-detection (CI
\* is "true" or "1", or GITHUB_ACTIONS is "true").
C2_StrictPrecedence ==
    Validated => vcall.strict = FirstDefinedStrict(vcall.config, vcall.options, env)

\* options.strict = false wins over config.validation.strict = true in CI
C2_Witness ==
    /\ Validated
    /\ vcall.options.strict = Some(FALSE)
    /\ vcall.config.validation.strict = Some(TRUE)
    /\ env.CI = Some("true")
    /\ ~vcall.strict
    /\ vout.tag = "ValidationResult" /\ vout.warnings # <<>> /\ vout.valid

\* C3: in every ValidationResult validate returns, valid is false if errors
\* is non-empty or if strict mode is active and warnings is non-empty, and
\* true otherwise.
C3_VerdictInvariant ==
    (Validated /\ vout.tag = "ValidationResult") =>
        (vout.valid <=> ~(vout.errors # <<>> \/ (vcall.strict /\ vout.warnings # <<>>)))

\* A result returned in non-strict mode with errors and a warning
C3_Witness ==
    /\ Validated
    /\ vout.tag = "ValidationResult"
    /\ ~vcall.strict /\ vout.errors # <<>> /\ vout.warnings # <<>>
    /\ ~vout.valid

MainMissing(config) == resolve(Cwd, config.entries.main) \notin files

CountCode(items, code) == Cardinality({i \in DOMAIN items : items[i].code = code})

\* C4: validate on a project whose main entry file is missing returns a
\* ValidationResult with valid = false whose errors hold exactly one
\* MAIN_ENTRY_MISSING item, in strict and in non-strict mode.
C4_MainMissingIsAnItem ==
    (Validated /\ MainMissing(vcall.config)) =>
        /\ vout.tag = "ValidationResult"
        /\ ~vout.valid
        /\ CountCode(vout.errors, "MAIN_ENTRY_MISSING") = 1

\* Main entry missing, strict mode, and a warning from the missing manifest
C4_Witness ==
    /\ Validated
    /\ MainMissing(vcall.config)
    /\ vcall.strict /\ vcall.warnings # <<>>
    /\ vout.tag = "ValidationResult"
    /\ CountCode(vout.errors, "MAIN_ENTRY_MISSING") = 1

-----------------------------------------------------------------------------
(* Properties of BuildService.build, under SpecBuild                        *)

Built == bcall.op = "build"

\* The events of one kind in a trace
Events(tr, ev) == SelectSeq(tr, LAMBDA x : x.ev = ev)

\* The roles whose conventional source file exists, main first
PresentTypes ==
    SelectSeq(<<"main", "pre", "post">>,
              LAMBDA t : resolve(Cwd, DEFAULT_ENTRIES[t]) \in files)

\* C5: build on a project whose main entry file is missing fails with
\* MainEntryMissing, and before touching the file system: the output
\* directory is not cleaned, the bundler is not invoked, no file is written.
C5_MainMissingIsFatal ==
    (Built /\ MainMissing(bcall.config)) =>
        /\ bpc = "done"
        /\ bout.tag = "MainEntryMissing"
        /\ \A i \in DOMAIN trace : trace[i].ev = "detect"
        /\ dist = bcall.dist0

\* A build with clean on, over a stale output directory, without main entry
C5_Witness ==
    /\ Built
    /\ MainMissing(bcall.config)
    /\ resolve(Cwd, PreDefault) \in files
    /\ shouldClean(bcall.options)
    /\ dist.exists
    /\ bout.tag = "MainEntryMissing"

IsPrefix(a, b) == Len(a) <= Len(b) /\ a = SubSeq(b, 1, Len(a))

\* The roles the bundler was invoked for, in order
Attempted == [i \in DOMAIN Events(trace, "bundle") |-> Events(trace, "bundle")[i].arg]

\* C6: build attempts every detected entry exactly once, in the order main,
\* pre, post, whatever the outcome of earlier entries, and BuildResult.entries
\* has one result per detected entry in that order.
C6_EveryEntryAttempted ==
    /\ IsPrefix(Attempted, PresentTypes)
    /\ (Built /\ bout.tag = "BuildResult") =>
        /\ Attempted = PresentTypes
        /\ Len(bout.entries) = Len(PresentTypes)
        /\ \A i \in DOMAIN bout.entries :
            /\ bout.entries[i].success =>
                    Get(bout.entries[i].stats).entry = PresentTypes[i]
            /\ ~bout.entries[i].success <=>
                    \/ ~Events(trace, "bundle")[i].ok
                    \/ \E k \in DOMAIN trace :
                        /\ trace[k].ev = "write" /\ ~trace[k].ok
                        /\ Len(Events(SubSeq(trace, 1, k), "bundle")) = i

\* Three entries, the first failed in the bundler, the other two bundled
C6_Witness ==
    /\ Built
    /\ bout.tag = "BuildResult"
    /\ Len(bout.entries) = 3
    /\ ~bout.entries[1].success
    /\ bout.entries[2].success
    /\ bout.entries[3].success

\* C7: in every BuildResult, success is true iff every entry result has
\* success = true, and the error summary is present iff success is false.
C7_SuccessIsConjunction ==
    (Built /\ bout.tag = "BuildResult") =>
        /\ bout.success <=> (\A i \in DOMAIN bout.entries : bout.entries[i].success)
        /\ IsSome(bout.error) <=> ~bout.success

\* A BuildResult with one bundled and one failed entry
C7_Witness ==
    /\ Built
    /\ bout.tag = "BuildResult"
    /\ Len(bout.entries) = 2
    /\ bout.entries[1].success
    /\ ~bout.entries[2].success
    /\ ~bout.success
    /\ IsSome(bout.error)

\* Entry detection and clean have succeeded in the build that ended
PastClean == Built /\ bpc = "done" /\ bout.tag \notin {"MainEntryMissing", "CleanError"}

\* C8 as stated: once entry detection and clean have succeeded, build
\* always returns a BuildResult, no write failure aborts it.
C8_AlwaysBuildResult ==
    PastClean => bout.tag = "BuildResult"

\* The entry being bundled when the k-th event of the trace happened
EntryAt(k) == Len(Events(SubSeq(trace, 1, k), "bundle"))

\* C8, amended: once entry detection and clean have succeeded, a write
\* failure while an entry is bundled (its output, source map or asset) is
\* captured as that entry's failed result and the build goes on to return a
\* BuildResult; only a failure of the marker file's write fails the build,
\* with WriteError.
C8_EntryWriteFailuresCaptured ==
    PastClean =>
        /\ bout.tag \in {"BuildResult", "WriteError"}
        /\ bout.tag = "WriteError" <=>
                (trace[Len(trace)].arg = MarkerPath /\ ~trace[Len(trace)].ok)
        /\ \A k \in DOMAIN trace :
            (trace[k].ev = "write" /\ ~trace[k].ok /\ trace[k].arg # MarkerPath) =>
                /\ EntryAt(k) \in DOMAIN entryResults
                /\ ~entryResults[EntryAt(k)].success
                /\ Len(entryResults) = Len(PresentTypes)

\* A write of the first entry failed, and a BuildResult was returned
C8_Witness ==
    /\ PastClean
    /\ bout.tag = "BuildResult"
    /\ Len(bout.entries) = 2
    /\ \E k \in DOMAIN trace :
        trace[k].ev = "write" /\ ~trace[k].ok /\ EntryAt(k) = 1
    /\ bout.entries[2].success

MarkerWrites == SelectSeq(trace, LAMBDA x : x.ev = "write" /\ x.arg = MarkerPath)

\* C9: whenever entry detection and clean succeed, build attempts the write
\* of the marker file exactly once, after the last entry has been attempted,
\* whatever the number of failed entries and the clean flag.
C9_MarkerOnce ==
    /\ PastClean =>
        /\ Len(MarkerWrites) = 1
        /\ trace[Len(trace)].ev = "write" /\ trace[Len(trace)].arg = MarkerPath
        /\ Attempted = PresentTypes
    /\ bpc # "done" => MarkerWrites = <<>>

\* Every entry failed, clean was off, and the marker file was written
C9_Witness ==
    /\ PastClean
    /\ ~shouldClean(bcall.options)
    /\ Len(entryResults) = 2
    /\ \A i \in DOMAIN entryResults : ~entryResults[i].success
    /\ Len(MarkerWrites) = 1
    /\ MarkerPath \in DOMAIN dist.files

\* The entry detectEntries returns for a role found at its conventional path
ConventionalEntry(type) ==
    [type |-> type, path |-> Cwd \o "/src/" \o type \o ".ts",
     output |-> "dist/" \o type \o ".js"]

\* C20: detectEntries fails with MainEntryMissing when the main entry file
\* does not exist, whatever pre and post files exist; with only the main
\* file present it returns exactly one entry, of type main; with main, pre
\* and post present it returns exactly three entries typed main, pre, post
\* in that order, each with an absolute source path under cwd and the output
\* dist/<role>.js.
C20_DetectEntries ==
    Built =>
        /\ MainMissing(bcall.config) =>
            /\ bout = [tag |-> "MainEntryMissing", expectedPath |-> MainDefault]
            /\ entriesResult = <<>>
        /\ ~MainMissing(bcall.config) =>
            /\ bout.tag # "MainEntryMissing"
            /\ entriesResult = [i \in 1..Len(PresentTypes) |->
                                    ConventionalEntry(PresentTypes[i])]
        /\ files = {resolve(Cwd, MainDefault)} =>
                entriesResult = <<ConventionalEntry("main")>>
        /\ files = SourcePaths =>
                entriesResult = <<ConventionalEntry("main"), ConventionalEntry("pre"),
                                  ConventionalEntry("post")>>

\* Main, pre and post present: three entries in the order main, pre, post
C20_Witness ==
    /\ Built
    /\ files = SourcePaths
    /\ Len(entriesResult) = 3
    /\ entriesResult[1].type = "main"
    /\ entriesResult[2].type = "pre"
    /\ entriesResult[3].type = "post"
    /\ entriesResult[3].path = "/project/src/post.ts"

\* The one path detectEntries checks for an optional role
CheckedPath(config, role) ==
    resolve(Cwd, IF config.entries[role] = None THEN DEFAULT_ENTRIES[role]
                 ELSE Get(config.entries[role]))

\* The entries of a role in the detection result
OfRole(role) == SelectSeq(entriesResult, LAMBDA e : e.type = role)

\* C21: detectEntries never fails because of a pre or post entry: for each
\* optional role it checks one path (the explicit override when given, else
\* the conventional src/<role>.ts), includes the role if and only if that
\* file exists and otherwise omits it; an explicit override that does not
\* exist is omitted without falling back to the conventional path.
C21_OptionalEntries ==
    Built =>
        /\ bout.tag = "MainEntryMissing" <=> MainMissing(bcall.config)
        /\ ~MainMissing(bcall.config) =>
            \A role \in {"pre", "post"} :
                IF CheckedPath(bcall.config, role) \in files
                THEN OfRole(role) = <<[type |-> role,
                                       path |-> CheckedPath(bcall.config, role),
                                       output |-> "dist/" \o role \o ".js"]>>
                ELSE OfRole(role) = <<>>

\* The configured pre entry src/setup.ts does not exist while src/pre.ts
\* does: no pre entry, and the configured post entry is detected
C21_Witness ==
    /\ Built
    /\ bcall.config.entries.pre = Some("src/setup.ts")
    /\ bcall.config.entries.post = Some("src/cleanup.ts")
    /\ files = {resolve(Cwd, MainDefault), resolve(Cwd, PreDefault),
                resolve(Cwd, "src/cleanup.ts")}
    /\ Len(entriesResult) = 2
    /\ entriesResult[2] = [type |-> "post", path |-> "/project/src/cleanup.ts",
                           output |-> "dist/post.js"]

\* The roles whose configured path does not exist
MissingExplicit(config) ==
    {role \in {"pre", "post"} :
        /\ config.entries[role] # None
        /\ resolve(Cwd, Get(config.entries[role])) \notin files}

\* C22 as stated: validate reports an error when a pre or post entry path
\* explicitly configured in config.entries does not exist on disk.
C22_ExplicitEntryMissingIsError ==
    Validated =>
        \A role \in MissingExplicit(vcall.config) :
            /\ vout.tag = "ValidationResult"
            /\ ~vout.valid
            /\ \E i \in DOMAIN vout.errors :
                    vout.errors[i].file = Get(vcall.config.entries[role])

-----------------------------------------------------------------------------
\* Whether the build was asked to clean (clean defaults to true)
CleanAsked == bcall.options.clean # Some(FALSE)

\* The paths this build has written
WrittenPaths == {trace[k].arg : k \in {j \in DOMAIN trace : trace[j].ev = "write" /\ trace[j].ok}}

\* C28: build with clean = true removes the output directory after entry
\* detection and before the first bundler invocation; a non-existent
\* directory is a no-op; a removal failure fails the whole build with
\* CleanError before any entry is bundled or any file written; with
\* clean = false no pre-existing file of the output directory is removed.
C28_CleanBeforeBundling ==
    (Built /\ bpc # "clean" /\ bout.tag # "MainEntryMissing") =>
        IF CleanAsked
        THEN /\ Len(trace) >= 2
             /\ trace[1].ev = "detect"
             /\ trace[2].ev = "clean"
             /\ Len(Events(trace, "clean")) = 1
             /\ ~bcall.dist0.exists => trace[2].ok
             /\ (trace[2].ok /\ Len(trace) = 2) => dist = NoDist
             /\ trace[2].ok => DOMAIN dist.files \subseteq WrittenPaths
             /\ ~trace[2].ok =>
                    /\ bpc = "done"
                    /\ bout = [tag |-> "CleanError", directory |-> "dist"]
                    /\ Len(trace) = 2
                    /\ entryResults = <<>>
                    /\ dist = bcall.dist0
             /\ bout.tag = "CleanError" => ~trace[2].ok
        ELSE /\ Events(trace, "clean") = <<>>
             /\ bout.tag # "CleanError"
             /\ DOMAIN bcall.dist0.files \subseteq DOMAIN dist.files

\* A build that cleans by default, on a directory left by an earlier build:
\* the directory is removed right after detection and the stale file is gone
C28_Witness ==
    /\ Built /\ bpc = "done"
    /\ bcall.options.clean = None
    /\ bcall.dist0 = StaleDist
    /\ bout.tag = "BuildResult"
    /\ trace[2] = event("clean", "dist", TRUE)
    /\ trace[3].ev = "bundle"
    /\ "dist/old.js" \notin DOMAIN dist.files
    /\ "dist/main.js" \in DOMAIN dist.files

\* C30 as stated: after build returns a BuildResult, for every entry whose
\* result has success = true the file dist/<role>.js holds that entry's
\* bundled code: no other step of the same build overwrites it.
C30_OutputsKept ==
    (Built /\ bpc = "done" /\ bout.tag = "BuildResult") =>
        \A i \in DOMAIN bout.entries :
            bout.entries[i].success =>
                LET stats == Get(bout.entries[i].stats)
                IN  /\ stats.outputPath \in DOMAIN dist.files
                    /\ dist.files[stats.outputPath] = "code:" \o stats.entry

-----------------------------------------------------------------------------
(* Properties of the facade, under SpecFacade                               *)

\* The promise of the facade operation has settled
Settled == fpc = "done"

\* C10 as stated: no operation of the facade (loadConfig, validate, build)
\* lets an internal failure escape to its caller as a rejected promise.
C10_NothingRejects ==
    Settled => fout.settled = "fulfilled"

ConfigFailed == lout.tag # "LoadResult"

\* build() went through without a failure of any stage
BuildPassed ==
    /\ ~ConfigFailed
    /\ facade.skipValidation \/ (vout.tag = "ValidationResult" /\ vout.valid)
    /\ bout.tag = "BuildResult"
    /\ bout.success

\* C10, amended: build() never rejects, every configuration, validation or
\* build failure is returned as a value with success = false and an error
\* string; loadConfig() rejects when the configuration cannot be loaded or
\* is invalid, and validate() rejects then and when validation fails with
\* ValidationFailed.
C10_OnlyBuildNeverRejects ==
    Settled =>
        /\ fout.op = "build" =>
            /\ fout.settled = "fulfilled"
            /\ fout.value.success <=> BuildPassed
            /\ ~fout.value.success => IsSome(fout.value.error)
        /\ fout.op = "loadConfig" =>
            (fout.settled = "rejected" <=> ConfigFailed)
        /\ fout.op = "validate" =>
            (fout.settled = "rejected" <=> (ConfigFailed \/ vout.tag = "ValidationFailed"))

\* build() returned a failed envelope after the marker file's WriteError
C10_Witness ==
    /\ Settled
    /\ fout.op = "build"
    /\ bout.tag = "WriteError"
    /\ fout.settled = "fulfilled"
    /\ ~fout.value.success
    /\ IsSome(fout.value.error)

\* build() is running or has settled
InBuild == fpc = "building" \/ (Settled /\ fout.op = "build")

\* The validation of build() has come back without a valid result
ValidationRefused ==
    /\ vcall.op = "validate"
    /\ ~(vout.tag = "ValidationResult" /\ vout.valid)

\* C11: in build() with skipValidation = false the build service is invoked
\* only after validation has returned a result with valid = true; when
\* validation returns valid = false or fails, the build service is never
\* invoked (no clean, no bundling, no write) and the envelope has
\* success = false and no build field.  With skipValidation = true
\* validation is not run and the envelope has no validation field.
C11_ValidationGatesBuild ==
    InBuild =>
        /\ (Built /\ ~facade.skipValidation) =>
                (vout.tag = "ValidationResult" /\ vout.valid)
        /\ (~facade.skipValidation /\ ValidationRefused) =>
            /\ ~Built /\ trace = <<>> /\ dist = NoDist
            /\ Settled
            /\ ~fout.value.success
            /\ fout.value.build = None
        /\ facade.skipValidation =>
            /\ vcall = NoCall
            /\ Settled => fout.value.validation = None

\* build() ended on a validation that failed in strict mode, without a build
C11_Witness ==
    /\ Settled /\ fout.op = "build"
    /\ ~facade.skipValidation
    /\ vout.tag = "ValidationFailed"
    /\ ~Built /\ dist = NoDist
    /\ ~fout.value.success
    /\ fout.value.build = None

\* The manifest is missing and build() has validated it
MissingManifestBuild ==
    /\ Settled /\ fout.op = "build"
    /\ ~facade.skipValidation
    /\ vcall.op = "validate"
    /\ vcall.config.validation.requireActionYml
    /\ manifest.kind = "missing"

-----------------------------------------------------------------------------
(* Properties of the facade's memoized configuration, under SpecMemo        *)

\* C12: once a loadConfig of a GitHubAction has succeeded, every later
\* loadConfig, validate and build on the instance uses the same memoized
\* configuration and does not run the loader again, even if the file on
\* disk has changed; within one build() the loader runs at most once.
C12_LoadedOnce ==
    /\ [](loads <= 1)
    /\ [][IsSome(fconfig) =>
            /\ fconfig' = fconfig
            /\ (fpc = "idle" /\ fpc' # "idle") => loads' = 0
            /\ (vcall' # vcall /\ vcall'.op = "validate") =>
                    vcall'.config = Get(fconfig)
            /\ (bcall' # bcall /\ bcall'.op = "build") =>
                    bcall'.config = Get(fconfig)
            /\ (fout' # fout /\ fout' # NoOutcome /\ fout'.op = "loadConfig") =>
                    fout' = fulfilled("loadConfig", Get(fconfig))]_vars

\* The file on disk now enables source maps; a build() validated and built
\* with the memoized configuration, which does not, and ran no loader
C12_Witness ==
    /\ configFile = MkConfigFile(TRUE, "object", MapsInput)
    /\ facade.configSource = None
    /\ IsSome(fconfig)
    /\ ~Get(fconfig).build.sourceMap
    /\ Settled /\ fout.op = "build"
    /\ loads = 0
    /\ vcall.op = "validate" /\ vcall.config = Get(fconfig)
    /\ bcall.op = "build" /\ bcall.config = Get(fconfig)

-----------------------------------------------------------------------------
(* Properties of manifest validation, under SpecValidate and SpecManifest   *)

ActionYmlPath == resolve(Cwd, ManifestPath)

\* The manifest is being validated: requireActionYml is on
ManifestRequired == Validated /\ vcall.config.validation.requireActionYml

\* The items that do not come from entry detection
ManifestItems(items) == SelectSeq(items, LAMBDA x : x.code # "MAIN_ENTRY_MISSING")

MissingWarning == [code |-> "ACTION_YML_MISSING", file |-> ActionYmlPath]

\* C13: with requireActionYml true and no file at <cwd>/action.yml, validate
\* records exactly one warning (ACTION_YML_MISSING) and no error for the
\* manifest; with the main entry present and strict false the result is
\* valid = true, errors empty, warnings exactly that one item.
C13_MissingManifestWarns ==
    (ManifestRequired /\ manifest.kind = "missing") =>
        /\ vcall.warnings = <<MissingWarning>>
        /\ ManifestItems(vcall.errors) = <<>>
        /\ (~MainMissing(vcall.config) /\ ~vcall.strict) =>
                vout = [tag |-> "ValidationResult", valid |-> TRUE, errors |-> <<>>,
                        warnings |-> <<MissingWarning>>]

\* No manifest, main entry present, strict explicitly false in CI
C13_Witness ==
    /\ ManifestRequired
    /\ manifest.kind = "missing"
    /\ ~MainMissing(vcall.config)
    /\ vcall.options.strict = Some(FALSE)
    /\ env.CI = Some("true")
    /\ vout.tag = "ValidationResult"
    /\ vout.valid
    /\ vout.warnings = <<MissingWarning>>

\* C15: when config.validation.requireActionYml is false, the result holds
\* no error and no warning from the manifest whatever its state (missing,
\* malformed, wrong runs.using); with the main entry present validate
\* returns valid = true with empty errors and warnings, strict or not.
C15_ManifestNotRequired ==
    (Validated /\ ~vcall.config.validation.requireActionYml) =>
        /\ vcall.warnings = <<>>
        /\ ManifestItems(vcall.errors) = <<>>
        /\ ~MainMissing(vcall.config) =>
                vout = [tag |-> "ValidationResult", valid |-> TRUE, errors |-> <<>>,
                        warnings |-> <<>>]

\* A manifest with runs.using = node20 and no branding, not required, in
\* strict mode
C15_Witness ==
    /\ Validated
    /\ ~vcall.config.validation.requireActionYml
    /\ manifest.kind = "object" /\ manifest.using = "node20"
    /\ manifest.branding = "absent"
    /\ vcall.strict
    /\ ~MainMissing(vcall.config)
    /\ vout.tag = "ValidationResult" /\ vout.valid

\* C16: a manifest whose runs.using is not "node24" fails schema validation
\* whatever its other fields; with the main entry present validate returns
\* valid = false with exactly one error item (ACTION_YML_SCHEMA_ERROR) and
\* no warnings.
C16_WrongUsingFailsSchema ==
    (ManifestRequired /\ manifest.kind = "object" /\ manifest.using # "node24") =>
        /\ validateActionYml(manifest, ActionYmlPath).tag = "ActionYmlSchemaError"
        /\ CountCode(vcall.errors, "ACTION_YML_SCHEMA_ERROR") = 1
        /\ vcall.warnings = <<>>
        /\ ~MainMissing(vcall.config) =>
            /\ vout.tag = "ValidationResult"
            /\ ~vout.valid
            /\ Len(vout.errors) = 1
            /\ vout.errors[1].code = "ACTION_YML_SCHEMA_ERROR"
            /\ vout.warnings = <<>>

\* An otherwise complete manifest with runs.using = node20
C16_Witness ==
    /\ ManifestRequired
    /\ manifest.using = "node20"
    /\ manifest.nameOk /\ manifest.branding = "full"
    /\ Len(manifest.inputs) = 1 /\ manifest.inputs[1].description = Some("text")
    /\ manifest.outputs = <<>>
    /\ ~MainMissing(vcall.config)
    /\ vout.tag = "ValidationResult" /\ ~vout.valid /\ Len(vout.errors) = 1

\* The declarations of a block without a description field
Undeclared(decls) == {i \in DOMAIN decls : decls[i].description = None}

\* The number of places where the manifest departs from the schema
ViolationCount ==
    (IF manifest.nameOk THEN 0 ELSE 1) + (IF manifest.using = "node24" THEN 0 ELSE 1)
    + Cardinality(Undeclared(manifest.inputs)) + Cardinality(Undeclared(manifest.outputs))

\* C17 as stated: for a manifest with n >= 2 schema violations the
\* ActionYmlSchemaError carries one {path, message} entry per violation and
\* validate reports one ACTION_YML_SCHEMA_ERROR item per violation.
C17_EveryViolationCollected ==
    (ManifestRequired /\ ViolationCount >= 2) =>
        /\ Len(validateActionYml(manifest, ActionYmlPath).errors) = ViolationCount
        /\ CountCode(vcall.errors, "ACTION_YML_SCHEMA_ERROR") = ViolationCount

\* C17, amended: for a manifest with n >= 1 schema violations the
\* ActionYmlSchemaError carries a single {path, message} entry, whose path
\* is the manifest's, and validate reports a single ACTION_YML_SCHEMA_ERROR
\* item, whatever n.
C17_OneSchemaErrorItem ==
    (ManifestRequired /\ ViolationCount >= 1) =>
        /\ validateActionYml(manifest, ActionYmlPath).tag = "ActionYmlSchemaError"
        /\ Len(validateActionYml(manifest, ActionYmlPath).errors) = 1
        /\ validateActionYml(manifest, ActionYmlPath).errors[1].path = ActionYmlPath
        /\ CountCode(vcall.errors, "ACTION_YML_SCHEMA_ERROR") = 1

\* Missing name, wrong runs.using and an input without description: one item
C17_Witness ==
    /\ ManifestRequired
    /\ ~manifest.nameOk /\ manifest.using = "node20"
    /\ Undeclared(manifest.inputs) # {}
    /\ ViolationCount >= 3
    /\ CountCode(vcall.errors, "ACTION_YML_SCHEMA_ERROR") = 1

\* Every declaration of the block has a description that is not empty
Described(decls) == \A i \in DOMAIN decls : decls[i].description \notin {None, Some("")}

\* The manifest passes the schema
SchemaValidManifest ==
    /\ manifest.kind = "object" /\ manifest.nameOk /\ manifest.using = "node24"
    /\ Undeclared(manifest.inputs) = {} /\ Undeclared(manifest.outputs) = {}

\* C18: for a schema-valid manifest, a missing branding block produces
\* exactly one ACTION_YML_NO_BRANDING warning and no icon or color warning;
\* a branding block without icon produces exactly one
\* ACTION_YML_NO_BRANDING_ICON warning, one without color exactly one
\* ACTION_YML_NO_BRANDING_COLOR warning; a manifest with complete branding
\* and descriptions on all inputs and outputs produces no warning.
C18_BrandingWarnings ==
    (ManifestRequired /\ SchemaValidManifest) =>
        /\ CountCode(vcall.warnings, "ACTION_YML_NO_BRANDING")
             = (IF manifest.branding = "absent" THEN 1 ELSE 0)
        /\ CountCode(vcall.warnings, "ACTION_YML_NO_BRANDING_ICON")
             = (IF manifest.branding \in {"empty", "color"} THEN 1 ELSE 0)
        /\ CountCode(vcall.warnings, "ACTION_YML_NO_BRANDING_COLOR")
             = (IF manifest.branding \in {"empty", "icon"} THEN 1 ELSE 0)
        /\ (manifest.branding = "full" /\ Described(manifest.inputs)
                /\ Described(manifest.outputs)) => vcall.warnings = <<>>

\* No branding block, every declaration described: the one warning
C18_Witness ==
    /\ ManifestRequired /\ SchemaValidManifest
    /\ manifest.branding = "absent"
    /\ Len(manifest.inputs) = 2 /\ Described(manifest.inputs)
    /\ Len(manifest.outputs) = 1 /\ Described(manifest.outputs)
    /\ Len(vcall.warnings) = 1
    /\ vcall.warnings[1].code = "ACTION_YML_NO_BRANDING"

\* The warning that names a declaration
DescriptionWarning(code, label, name) ==
    [code |-> code, message |-> label \o " '" \o name \o "' has no description",
     file |-> ActionYmlPath]

Occurrences(items, item) == Cardinality({i \in DOMAIN items : items[i] = item})

\* C19 as stated: for every declared input and output that lacks a
\* description field, manifest validation succeeds and yields one warning
\* naming that input or output.
C19_MissingDescriptionWarns ==
    (ManifestRequired /\ manifest.kind = "object" /\ manifest.nameOk
        /\ manifest.using = "node24") =>
        /\ validateActionYml(manifest, ActionYmlPath).tag = "ActionYmlResult"
        /\ \A i \in Undeclared(manifest.inputs) :
            Occurrences(vcall.warnings,
                DescriptionWarning("ACTION_YML_INPUT_NO_DESCRIPTION", "Input",
                                   manifest.inputs[i].name)) = 1
        /\ \A i \in Undeclared(manifest.outputs) :
            Occurrences(vcall.warnings,
                DescriptionWarning("ACTION_YML_OUTPUT_NO_DESCRIPTION", "Output",
                                   manifest.outputs[i].name)) = 1

\* The declarations of a block whose description is the empty string
EmptyDescribed(decls) == {i \in DOMAIN decls : decls[i].description = Some("")}

\* C19, amended: a manifest with an input or output that lacks a description
\* field fails schema validation (one ACTION_YML_SCHEMA_ERROR item, no
\* warning); in a manifest that passes the schema, every input and output
\* whose description is empty yields one warning naming it
\* (ACTION_YML_INPUT_NO_DESCRIPTION / ACTION_YML_OUTPUT_NO_DESCRIPTION), and
\* no other input or output yields one.
C19_EmptyDescriptionWarns ==
    (ManifestRequired /\ manifest.kind = "object") =>
        /\ (Undeclared(manifest.inputs) \cup Undeclared(manifest.outputs) # {}) =>
            /\ validateActionYml(manifest, ActionYmlPath).tag = "ActionYmlSchemaError"
            /\ CountCode(vcall.errors, "ACTION_YML_SCHEMA_ERROR") = 1
            /\ vcall.warnings = <<>>
        /\ SchemaValidManifest =>
            /\ validateActionYml(manifest, ActionYmlPath).tag = "ActionYmlResult"
            /\ \A i \in DOMAIN manifest.inputs :
                Occurrences(vcall.warnings,
                    DescriptionWarning("ACTION_YML_INPUT_NO_DESCRIPTION", "Input",
                                       manifest.inputs[i].name))
                  = (IF i \in EmptyDescribed(manifest.inputs) THEN 1 ELSE 0)
            /\ \A i \in DOMAIN manifest.outputs :
                Occurrences(vcall.warnings,
                    DescriptionWarning("ACTION_YML_OUTPUT_NO_DESCRIPTION", "Output",
                                       manifest.outputs[i].name))
                  = (IF i \in EmptyDescribed(manifest.outputs) THEN 1 ELSE 0)
            /\ CountCode(vcall.warnings, "ACTION_YML_INPUT_NO_DESCRIPTION")
                  = Cardinality(EmptyDescribed(manifest.inputs))
            /\ CountCode(vcall.warnings, "ACTION_YML_OUTPUT_NO_DESCRIPTION")
                  = Cardinality(EmptyDescribed(manifest.outputs))

\* Complete branding, one input and one output with an empty description:
\* two warnings
C19_Witness ==
    /\ ManifestRequired /\ SchemaValidManifest
    /\ manifest.branding = "full"
    /\ Len(manifest.inputs) = 2 /\ EmptyDescribed(manifest.inputs) = {2}
    /\ Len(manifest.outputs) = 1 /\ EmptyDescribed(manifest.outputs) = {1}
    /\ Len(vcall.warnings) = 2
    /\ vout.tag = "ValidationResult"

-----------------------------------------------------------------------------
\* The file at action.yml parses, to a top-level value that is no mapping
NonObjectManifest == manifest.kind \in {"nonobject", "sequence"}

\* C29 as stated: validateManifest on a file whose YAML parses to a
\* non-object top-level value (null, scalar or sequence) fails with
\* ActionYmlSyntaxError, never with ActionYmlSchemaError, so validate
\* reports it as ACTION_YML_SYNTAX_ERROR.
C29_NonObjectIsSyntaxError ==
    (ManifestRequired /\ NonObjectManifest) =>
        /\ validateActionYml(manifest, ActionYmlPath).tag = "ActionYmlSyntaxError"
        /\ CountCode(vcall.errors, "ACTION_YML_SYNTAX_ERROR") = 1
        /\ CountCode(vcall.errors, "ACTION_YML_SCHEMA_ERROR") = 0

-----------------------------------------------------------------------------
(* Properties of configuration resolution and loading, under SpecResolve   *)
(* and SpecLoad                                                            *)

\* loadConfig() of an instance created with a configuration object is done
Resolved ==
    /\ Settled /\ fout.op = "loadConfig"
    /\ IsSome(facade.configSource)
    /\ Get(facade.configSource).kind = "object"

\* The input the instance was created with
GivenInput == Get(facade.configSource).input

\* The value of a field: the supplied one, or else its documented default
OrDefault(supplied, default) == IF supplied = None THEN default ELSE Get(supplied)

\* A resolved configuration read as a configuration input
AsInput(config) ==
    [mistyped   |-> {},
     entries    |-> [main |-> Some(config.entries.main), pre |-> config.entries.pre,
                     post |-> config.entries.post],
     build      |-> [minify |-> Some(config.build.minify),
                     target |-> Some(config.build.target),
                     sourceMap |-> Some(config.build.sourceMap),
                     externals |-> Some(config.build.externals),
                     quiet |-> Some(config.build.quiet)],
     validation |-> [requireActionYml |-> Some(config.validation.requireActionYml),
                     maxBundleSize |-> config.validation.maxBundleSize,
                     strict |-> config.validation.strict]]

\* C23: defineConfig on any schema-valid partial input returns a
\* configuration in which every supplied field keeps its value and every
\* field not supplied takes its documented default (entries.main =
\* src/main.ts, build.minify = true, target = es2022, sourceMap = false,
\* externals = [], quiet = false, validation.requireActionYml = true; pre,
\* post, maxBundleSize and strict stay unset); resolving an already-resolved
\* configuration yields an equal configuration.
C23_DefaultsAndIdempotence ==
    Resolved =>
        /\ fout.settled = "fulfilled"
        /\ fout.value.entries.main = OrDefault(GivenInput.entries.main, "src/main.ts")
        /\ fout.value.entries.pre = GivenInput.entries.pre
        /\ fout.value.entries.post = GivenInput.entries.post
        /\ fout.value.build.minify = OrDefault(GivenInput.build.minify, TRUE)
        /\ fout.value.build.target = OrDefault(GivenInput.build.target, "es2022")
        /\ fout.value.build.sourceMap = OrDefault(GivenInput.build.sourceMap, FALSE)
        /\ fout.value.build.externals = OrDefault(GivenInput.build.externals, <<>>)
        /\ fout.value.build.quiet = OrDefault(GivenInput.build.quiet, FALSE)
        /\ fout.value.validation.requireActionYml
                = OrDefault(GivenInput.validation.requireActionYml, TRUE)
        /\ fout.value.validation.maxBundleSize = GivenInput.validation.maxBundleSize
        /\ fout.value.validation.strict = GivenInput.validation.strict
        /\ defineConfig(AsInput(fout.value)) = [tag |-> "Config", config |-> fout.value]

\* An input that sets only minify = false and one external: the rest defaults
C23_Witness ==
    /\ Resolved
    /\ GivenInput = [DefaultInput EXCEPT !.build.minify = Some(FALSE),
                                         !.build.externals = Some(<<"@actions/core">>)]
    /\ fout.settled = "fulfilled"
    /\ ~fout.value.build.minify
    /\ fout.value.build.externals = <<"@actions/core">>
    /\ fout.value.build.target = "es2022"
    /\ fout.value.validation.requireActionYml
    /\ fout.value.validation.strict = None

\* ConfigService.load has run with an explicit configPath
LoadedByPath ==
    /\ lout # NoOutcome
    /\ IsSome(facade.configSource)
    /\ Get(facade.configSource).kind = "path"

\* C24 as stated: load with an explicit configPath fails with ConfigNotFound
\* exactly when no file exists at the location the module would be loaded
\* from (configPath resolved against options.cwd).
C24_NotFoundIffAbsent ==
    LoadedByPath => (lout.tag = "ConfigNotFound" <=> configFile.module = "missing")

\* ConfigService.load has imported the configuration file
Imported ==
    /\ lout # NoOutcome
    /\ lout.tag \notin {"ConfigNotFound", "ConfigLoadFailed"}
    /\ configFile.module \in {"nonobject", "object", "instance"}
    /\ IsSome(facade.configSource) => configFile.found

\* C25 as stated: load of a config file whose default export is an object
\* containing an invalid value (a build.target outside es2020..es2024, a
\* wrong-typed field) fails with the typed ConfigInvalid error.
C25_InvalidValueIsConfigInvalid ==
    (Imported /\ configFile.module = "object" /\ ~inputValid(configFile.input)) =>
        lout.tag = "ConfigInvalid"

\* C26 as stated: load of a config file whose default export is
\* GitHubAction.create({entries, build, validation}) yields a resolved
\* configuration whose sections carry the values passed to create.
C26_CreateFormKeepsValues ==
    (Imported /\ configFile.module = "instance" /\ inputValid(configFile.input)) =>
        /\ lout.tag = "LoadResult"
        /\ lout.config = defineConfig(configFile.input).config

-----------------------------------------------------------------------------
(* Properties of the bundle size limit, under SpecSize                      *)

\* The documented units of maxBundleSize: "500kb", "5mb"
LimitBytes(limit) ==
    CASE limit = "5mb" -> 5 * 1024 * 1024
      [] limit = "500kb" -> 500 * 1024

\* build() has returned for a configuration that limits the bundle size, and
\* the build service produced at least one bundle beyond the limit
OversizedBundle ==
    /\ Settled /\ fout.op = "build"
    /\ IsSome(fconfig)
    /\ IsSome(Get(fconfig).validation.maxBundleSize)
    /\ bout.tag = "BuildResult"
    /\ \E i \in DOMAIN bout.entries :
            /\ bout.entries[i].success
            /\ Get(bout.entries[i].stats).size
                    > LimitBytes(Get(Get(fconfig).validation.maxBundleSize))

\* C27 as stated: when validation.maxBundleSize is set and a produced
\* bundle's size exceeds that limit, the pipeline reports a failure.
C27_OversizedBundleFails ==
    OversizedBundle =>
        /\ ~fout.value.success
        /\ IsSome(fout.value.error)

====
